---------------------------- MODULE Spec2Model ----------------------------
(***************************************************************************)
(* Grid-graph construction (Fairway) and A* route search (RoutePlan) of    *)
(* src/src/route_planner.py.                                               *)
(*                                                                         *)
(* Numbers.  Every edge weight of the built graph is spacing_m * 1.0 or    *)
(* spacing_m * 2**0.5, and the heuristic is the square root of an integer  *)
(* (coordinates are minx + i*spacing_m).  With integer inputs every        *)
(* quantity the search compares is therefore a + b*sqrt(2) + sqrt(n) with  *)
(* integers a, b, n.  The model keeps these three integers and compares    *)
(* them exactly (real arithmetic, no rounding).                            *)
(***************************************************************************)
EXTENDS Integers, Sequences, FiniteSets, TLC

(***************************************************************************)
(* Bounds of the model.                                                    *)
(***************************************************************************)
\* The fairway's bounding box is (0, 0, MaxX, MaxY) in metres.
MaxX == 2
MaxY == 2
\* Grid spacings tried: -MaxSpacing .. MaxSpacing (zero and negatives included).
MaxSpacing == 2
\* Query coordinates lie up to Margin metres outside the bounding box.
Margin == 1

(***************************************************************************)
(* Exact arithmetic on a + b*sqrt(2).                                      *)
(***************************************************************************)
Num(a, b) == [a |-> a, b |-> b]

Zero == Num(0, 0)

Add(p, q) == Num(p.a + q.a, p.b + q.b)

\* Sign of a + b*sqrt(2): -1, 0 or 1.
Sgn2(a, b) ==
    IF a = 0 /\ b = 0 THEN 0
    ELSE IF a >= 0 /\ b >= 0 THEN 1
    ELSE IF a <= 0 /\ b <= 0 THEN -1
    ELSE IF a > 0 THEN (IF a * a > 2 * b * b THEN 1 ELSE -1)
    ELSE (IF 2 * b * b > a * a THEN 1 ELSE -1)

\* p < q and p <= q for p, q of the form a + b*sqrt(2).
Less(p, q) == Sgn2(p.a - q.a, p.b - q.b) < 0

LessEq(p, q) == Sgn2(p.a - q.a, p.b - q.b) <= 0

\* Sign of (a + b*sqrt(2)) + sqrt(n) - sqrt(m) for a + b*sqrt(2) > 0 and n < m:
\* the sign of (a + b*sqrt(2))^2 - (sqrt(m) - sqrt(n))^2.
SgnPos(a, b, n, m) ==
    LET P == a * a + 2 * b * b - m - n
        Q == 2 * a * b
        sy == Sgn2(P, Q)
    IN  IF sy > 0 THEN 1
        ELSE IF sy = 0 THEN (IF m * n > 0 THEN 1 ELSE 0)
        ELSE Sgn2(4 * m * n - P * P - 2 * Q * Q, 0 - 2 * P * Q)

\* Sign of (a + b*sqrt(2)) + sqrt(n) - sqrt(m).
Sgn3(a, b, n, m) ==
    LET sx == Sgn2(a, b) IN
    IF n = m THEN sx
    ELSE IF sx = 0 THEN (IF n > m THEN 1 ELSE -1)
    ELSE IF sx > 0 /\ n > m THEN 1
    ELSE IF sx < 0 /\ n < m THEN -1
    ELSE IF sx > 0 THEN SgnPos(a, b, n, m)
    ELSE 0 - SgnPos(0 - a, 0 - b, m, n)

(***************************************************************************)
(* GridSpec.neighbors: relative offsets and step-cost multipliers          *)
(* (1.0 for N/E/S/W, 2**0.5 for diagonals).                                *)
(***************************************************************************)
Orthogonal == << <<-1, 0, Num(1, 0)>>, <<1, 0, Num(1, 0)>>,
                 <<0, -1, Num(1, 0)>>, <<0, 1, Num(1, 0)>> >>

Diagonal == << <<-1, -1, Num(0, 1)>>, <<-1, 1, Num(0, 1)>>,
               <<1, -1, Num(0, 1)>>, <<1, 1, Num(0, 1)>> >>

\* TRUE when neighbors() raises ValueError("connectivity must be 4 or 8").
neighbors_raises(connectivity) == connectivity # 4 /\ connectivity # 8

\* neighbors built from every offset of -1..1 x -1..1, the node itself included.
neighbors_with_self(connectivity) ==
    IF connectivity = 4 THEN << <<0, 0, Num(0, 0)>> >> \o Orthogonal
    ELSE IF connectivity = 8 THEN << <<0, 0, Num(0, 0)>> >> \o Orthogonal \o Diagonal
    ELSE << >>

\* neighbors returning the eight offsets whatever the connectivity.
neighbors_always8(connectivity) ==
    IF connectivity = 4 \/ connectivity = 8 THEN Orthogonal \o Diagonal
    ELSE << >>

neighbors(connectivity) ==
    IF connectivity = 4 THEN Orthogonal
    ELSE IF connectivity = 8 THEN Orthogonal \o Diagonal
    ELSE << >>

(***************************************************************************)
(* The fairway geometry in metric coordinates: its bounding box and the    *)
(* integer points it covers (interior or boundary).                        *)
(***************************************************************************)
BoxPoints == (0 .. MaxX) \X (0 .. MaxY)

Fairways ==
    { [minx |-> 0, miny |-> 0, maxx |-> MaxX, maxy |-> MaxY, covered |-> c] :
        c \in SUBSET BoxPoints }

\* prepared.covers(Point(x, y))
covers(fairway_m, pt) == pt \in fairway_m.covered

\* Python's float floor division a // s, for s # 0.
FloorDiv(a, s) ==
    LET n == IF s > 0 THEN a ELSE 0 - a
        d == IF s > 0 THEN s ELSE 0 - s
    IN  IF n >= 0 THEN n \div d ELSE 0 - ((0 - n + d - 1) \div d)

\* candidates with the index ranges cut at the bounding box: range(nx_cells)
\* x range(ny_cells) for nx_cells = int((maxx - minx) // spacing), without
\* the cells added past the last whole one.
candidates_within(fairway_m, spacing_m) ==
    LET cols == FloorDiv(fairway_m.maxx - fairway_m.minx, spacing_m)
        rows == FloorDiv(fairway_m.maxy - fairway_m.miny, spacing_m)
    IN  IF cols <= 0 \/ rows <= 0 THEN << >>
        ELSE [k \in 1 .. (cols * rows) |->
                LET i == (k - 1) \div rows
                    j == (k - 1) % rows
                IN  << <<i, j>>,
                       <<fairway_m.minx + i * spacing_m,
                         fairway_m.miny + j * spacing_m>> >>]

\* range(nx_cells + 1) x range(ny_cells + 1) in iteration order, each
\* candidate with its point (minx + i*spacing, miny + j*spacing).
candidates(fairway_m, spacing_m) ==
    LET nx_cells == FloorDiv(fairway_m.maxx - fairway_m.minx, spacing_m) + 1
        ny_cells == FloorDiv(fairway_m.maxy - fairway_m.miny, spacing_m) + 1
        cols == nx_cells + 1
        rows == ny_cells + 1
    IN  IF cols <= 0 \/ rows <= 0 THEN << >>
        ELSE [k \in 1 .. (cols * rows) |->
                LET i == (k - 1) \div rows
                    j == (k - 1) % rows
                IN  << <<i, j>>,
                       <<fairway_m.minx + i * spacing_m,
                         fairway_m.miny + j * spacing_m>> >>]

\* The dict xy: (i, j) -> (x, y), as the sequence of its items in insertion
\* order.
grid_xy(fairway_m, spacing_m) ==
    LET Covered(c) == covers(fairway_m, c[2])
    IN  SelectSeq(candidates(fairway_m, spacing_m), Covered)

Keys(xy) == { xy[k][1] : k \in 1 .. Len(xy) }

\* xy[n] for a key n of the dict.
Lookup(xy, n) == xy[CHOOSE k \in 1 .. Len(xy) : xy[k][1] = n][2]

(***************************************************************************)
(* networkx.Graph: the nodes in insertion order and, per node, the         *)
(* adjacency dict as the sequence of (neighbour, weight) in insertion      *)
(* order.                                                                  *)
(***************************************************************************)
has_edge(adj, u, v) == \E k \in 1 .. Len(adj[u]) : adj[u][k][1] = v

add_edge(adj, u, v, w) ==
    [adj EXCEPT ![u] = Append(@, <<v, w>>), ![v] = Append(@, <<u, w>>)]

\* add_edges taking the step multiplier alone as the weight: grid units
\* instead of metres.
RECURSIVE add_edges_unscaled(_, _, _, _, _)
add_edges_unscaled(xy, nbrs, spacing_m, k, adj) ==
    IF k > Len(xy) * Len(nbrs) THEN adj
    ELSE
        LET node == xy[((k - 1) \div Len(nbrs)) + 1][1]
            off == nbrs[((k - 1) % Len(nbrs)) + 1]
            nb == <<node[1] + off[1], node[2] + off[2]>>
            dist == off[3]
        IN  IF nb \in Keys(xy) /\ ~has_edge(adj, node, nb)
            THEN add_edges_unscaled(xy, nbrs, spacing_m, k + 1,
                                    add_edge(adj, node, nb, dist))
            ELSE add_edges_unscaled(xy, nbrs, spacing_m, k + 1, adj)

\* add_edges that joins diagonal neighbours only when a node they share as
\* orthogonal neighbour is traversable too.
RECURSIVE add_edges_no_corner(_, _, _, _, _)
add_edges_no_corner(xy, nbrs, spacing_m, k, adj) ==
    IF k > Len(xy) * Len(nbrs) THEN adj
    ELSE
        LET node == xy[((k - 1) \div Len(nbrs)) + 1][1]
            off == nbrs[((k - 1) % Len(nbrs)) + 1]
            nb == <<node[1] + off[1], node[2] + off[2]>>
            dist == Num(spacing_m * off[3].a, spacing_m * off[3].b)
            open == \/ off[1] = 0
                    \/ off[2] = 0
                    \/ <<node[1], nb[2]>> \in Keys(xy)
                    \/ <<nb[1], node[2]>> \in Keys(xy)
        IN  IF nb \in Keys(xy) /\ open /\ ~has_edge(adj, node, nb)
            THEN add_edges_no_corner(xy, nbrs, spacing_m, k + 1,
                                     add_edge(adj, node, nb, dist))
            ELSE add_edges_no_corner(xy, nbrs, spacing_m, k + 1, adj)

\* The two nested loops "for (i, j) in xy.items(): for di, dj, mult in
\* grid.neighbors()", flattened: step k visits node (k-1) \div |nbrs| + 1 and
\* offset (k-1) % |nbrs| + 1.
RECURSIVE add_edges(_, _, _, _, _)
add_edges(xy, nbrs, spacing_m, k, adj) ==
    IF k > Len(xy) * Len(nbrs) THEN adj
    ELSE
        LET node == xy[((k - 1) \div Len(nbrs)) + 1][1]
            off == nbrs[((k - 1) % Len(nbrs)) + 1]
            nb == <<node[1] + off[1], node[2] + off[2]>>
            dist == Num(spacing_m * off[3].a, spacing_m * off[3].b)
        IN  IF nb \in Keys(xy) /\ ~has_edge(adj, node, nb)
            THEN add_edges(xy, nbrs, spacing_m, k + 1, add_edge(adj, node, nb, dist))
            ELSE add_edges(xy, nbrs, spacing_m, k + 1, adj)

EmptyGraph == [nodes |-> << >>, adj |-> << >>]

\* _get_grid_graph refusing an empty node set.
get_grid_graph_nonempty(fairway_m, spacing_m, connectivity) ==
    IF spacing_m = 0
    THEN [status |-> "ZeroDivisionError", G |-> EmptyGraph, xy_m |-> << >>]
    ELSE
        LET xy == grid_xy(fairway_m, spacing_m)
            nodes == [k \in 1 .. Len(xy) |-> xy[k][1]]
            adj0 == [n \in Keys(xy) |-> << >>]
        IN  IF Len(xy) = 0 \/ neighbors_raises(connectivity)
            THEN [status |-> "ValueError", G |-> EmptyGraph, xy_m |-> << >>]
            ELSE [status |-> "ok",
                  G |-> [nodes |-> nodes,
                         adj |-> add_edges(xy, neighbors(connectivity),
                                           spacing_m, 1, adj0)],
                  xy_m |-> xy]

\* Fairway._get_grid_graph: the outcome of the build.
\*   spacing 0: (maxx - minx) // 0.0 raises ZeroDivisionError;
\*   unsupported connectivity: neighbors() raises ValueError, but it is only
\*   called inside the loop over the nodes.
get_grid_graph(fairway_m, spacing_m, connectivity) ==
    IF spacing_m = 0
    THEN [status |-> "ZeroDivisionError", G |-> EmptyGraph, xy_m |-> << >>]
    ELSE
        LET xy == grid_xy(fairway_m, spacing_m)
            nodes == [k \in 1 .. Len(xy) |-> xy[k][1]]
            adj0 == [n \in Keys(xy) |-> << >>]
        IN  IF Len(xy) > 0 /\ neighbors_raises(connectivity)
            THEN [status |-> "ValueError", G |-> EmptyGraph, xy_m |-> << >>]
            ELSE [status |-> "ok",
                  G |-> [nodes |-> nodes,
                         adj |-> add_edges(xy, neighbors(connectivity),
                                           spacing_m, 1, adj0)],
                  xy_m |-> xy]


\* Fairway.get_stats
get_stats(G, spacing_m, connectivity) ==
    [nodes |-> Len(G.nodes),
     edges |-> LET Deg(k) == Len(G.adj[G.nodes[k]])
                   RECURSIVE Sum(_)
                   Sum(k) == IF k = 0 THEN 0 ELSE Deg(k) + Sum(k - 1)
               IN  Sum(Len(G.nodes)) \div 2,
     spacing_m |-> spacing_m,
     connectivity |-> connectivity]

(***************************************************************************)
(* RoutePlan._nearest_node_xy: linear scan over xy_m.items() keeping the   *)
(* first node of least squared distance; None on an empty dict.            *)
(***************************************************************************)
None == << >>

\* nearest_scan measuring the distance along x only.
RECURSIVE nearest_scan_x(_, _, _, _, _, _)
nearest_scan_x(xy, x, y, k, best, best_d2) ==
    IF k > Len(xy) THEN best
    ELSE
        LET nxm == xy[k][2][1]
            d2 == (nxm - x) * (nxm - x)
        IN  IF best = None \/ d2 < best_d2
            THEN nearest_scan_x(xy, x, y, k + 1, xy[k][1], d2)
            ELSE nearest_scan_x(xy, x, y, k + 1, best, best_d2)

RECURSIVE nearest_scan(_, _, _, _, _, _)
nearest_scan(xy, x, y, k, best, best_d2) ==
    IF k > Len(xy) THEN best
    ELSE
        LET nxm == xy[k][2][1]
            nym == xy[k][2][2]
            d2 == (nxm - x) * (nxm - x) + (nym - y) * (nym - y)
        IN  \* best = None stands for best_d2 = float("inf")
            IF best = None \/ d2 < best_d2
            THEN nearest_scan(xy, x, y, k + 1, xy[k][1], d2)
            ELSE nearest_scan(xy, x, y, k + 1, best, best_d2)

\* nearest_node_xy with a snapping radius: None for a point further than one
\* metre from every node.
nearest_node_xy_within(xy, x, y) ==
    LET best == nearest_scan(xy, x, y, 1, None, 0)
    IN  IF best = None THEN None
        ELSE IF (Lookup(xy, best)[1] - x) * (Lookup(xy, best)[1] - x)
                  + (Lookup(xy, best)[2] - y) * (Lookup(xy, best)[2] - y) > 1
        THEN None
        ELSE best

nearest_node_xy(xy, x, y) == nearest_scan(xy, x, y, 1, None, 0)

(***************************************************************************)
(* The heuristic h(u, v) of shortest_path_between: the Euclidean distance  *)
(* between the coordinates of u and v.  The model keeps its square n, an   *)
(* integer; the distance is sqrt(n).                                       *)
(***************************************************************************)
\* h as the city-block distance |dx| + |dy| (its square is kept, as for h).
h_cityblock(xy, u, v) ==
    LET ux == Lookup(xy, u)[1]
        uy == Lookup(xy, u)[2]
        vx == Lookup(xy, v)[1]
        vy == Lookup(xy, v)[2]
        dx == IF ux < vx THEN vx - ux ELSE ux - vx
        dy == IF uy < vy THEN vy - uy ELSE uy - vy
    IN  (dx + dy) * (dx + dy)

h(xy, u, v) ==
    LET ux == Lookup(xy, u)[1]
        uy == Lookup(xy, u)[2]
        vx == Lookup(xy, v)[1]
        vy == Lookup(xy, v)[2]
    IN  (ux - vx) * (ux - vx) + (uy - vy) * (uy - vy)

(***************************************************************************)
(* networkx.astar_path(G, s, t, heuristic=h, weight="weight"), called at   *)
(* route_planner.py line 233.  The queue holds tuples                      *)
(* (ncost + h, next(c), node, ncost, parent) ordered by their first two    *)
(* components; enqueued maps a node to (qcost, h), explored to its parent. *)
(***************************************************************************)
\* The priority dist + sqrt(h2) of a queue entry.
Priority(dist, h2) == [a |-> dist.a, b |-> dist.b, n |-> h2]

PriorityCmp(f, g) == Sgn3(f.a - g.a, f.b - g.b, f.n, g.n)

\* A queue served in insertion order: the counter alone decides.
Before_fifo(e1, e2) == e1.c < e2.c

\* Tuple order of two queue entries: by priority, then by the counter.
Before(e1, e2) ==
    LET s == PriorityCmp(e1.f, e2.f)
    IN  s < 0 \/ (s = 0 /\ e1.c < e2.c)

heappop(queue) == CHOOSE e \in queue : \A o \in queue \ {e} : Before(e, o)

astar_init(G, source, target) ==
    IF source \notin DOMAIN G.adj \/ target \notin DOMAIN G.adj
    THEN [status |-> "NodeNotFound", queue |-> {}, enqueued |-> << >>,
          explored |-> << >>, c |-> 0, path |-> << >>, expanded |-> 0]
    ELSE [status |-> "running",
          queue |-> {[f |-> Priority(Zero, 0), c |-> 0, node |-> source,
                      dist |-> Zero, parent |-> None]},
          enqueued |-> << >>, explored |-> << >>, c |-> 1, path |-> << >>,
          expanded |-> 0]

\* walk_back stopping one node early: the start node is left out.
RECURSIVE walk_back_short(_, _)
walk_back_short(explored, node) ==
    IF node = None THEN << >>
    ELSE IF explored[node] = None THEN << >>
    ELSE Append(walk_back_short(explored, explored[node]), node)

\* path = [curnode]; node = parent; while node is not None: path.append(node);
\* node = explored[node]; the result reversed.
RECURSIVE walk_back(_, _)
walk_back(explored, node) ==
    IF node = None THEN << >>
    ELSE Append(walk_back(explored, explored[node]), node)

\* The loop "for neighbor, w in G_succ[curnode].items()" from its k-th item on.
\* The search state is bound to its value once per item (s \in {state}).
RECURSIVE relax(_, _, _, _, _, _, _)
relax(xy, target, nbrs, k, curnode, dist, state) ==
    LET Item(st) ==
            LET neighbor == nbrs[k][1]
                ncost == Add(dist, nbrs[k][2])
                seen == neighbor \in DOMAIN st.enqueued
            IN  IF seen /\ LessEq(st.enqueued[neighbor].qcost, ncost)
                THEN relax(xy, target, nbrs, k + 1, curnode, dist, st)
                ELSE
                    LET hh == IF seen THEN st.enqueued[neighbor].h
                              ELSE h(xy, neighbor, target)
                        entry == [f |-> Priority(ncost, hh), c |-> st.c,
                                  node |-> neighbor, dist |-> ncost,
                                  parent |-> curnode]
                        \* enqueued[neighbor] = ncost, h
                        enq == (neighbor :> [qcost |-> ncost, h |-> hh])
                                 @@ st.enqueued
                    IN  relax(xy, target, nbrs, k + 1, curnode, dist,
                              [st EXCEPT !.enqueued = enq,
                                         !.queue = @ \cup {entry},
                                         !.c = @ + 1])
    IN  IF k > Len(nbrs) THEN state
        ELSE CHOOSE r \in { Item(s) : s \in {state} } : TRUE

\* astar_step looping on an empty queue instead of raising the no-path error.
astar_step_spin(G, xy, target, st) ==
    IF st.queue = {} THEN st
    ELSE
        LET e == heappop(st.queue)
            popped == [st EXCEPT !.queue = @ \ {e}]
            curnode == e.node
        IN  IF curnode = target
            THEN [popped EXCEPT !.status = "found",
                                !.path = Append(walk_back(st.explored, e.parent),
                                                curnode)]
            ELSE IF curnode \in DOMAIN st.explored
                    /\ (st.explored[curnode] = None
                        \/ Less(st.enqueued[curnode].qcost, e.dist))
            THEN popped
            ELSE
                LET expl == (curnode :> e.parent) @@ st.explored
                IN  relax(xy, target, G.adj[curnode], 1, curnode, e.dist,
                          [popped EXCEPT !.explored = expl,
                                         !.expanded = @ + 1])

\* astar_step taking a popped entry for the goal only when it has a parent:
\* the entry of the source itself is expanded even when it is the target.
astar_step_goal_after_move(G, xy, target, st) ==
    IF st.queue = {} THEN [st EXCEPT !.status = "NetworkXNoPath"]
    ELSE
        LET e == heappop(st.queue)
            popped == [st EXCEPT !.queue = @ \ {e}]
            curnode == e.node
        IN  IF curnode = target /\ e.parent # None
            THEN [popped EXCEPT !.status = "found",
                                !.path = Append(walk_back(st.explored, e.parent),
                                                curnode)]
            ELSE IF curnode \in DOMAIN st.explored
                    /\ (st.explored[curnode] = None
                        \/ Less(st.enqueued[curnode].qcost, e.dist))
            THEN popped
            ELSE
                LET expl == (curnode :> e.parent) @@ st.explored
                IN  relax(xy, target, G.adj[curnode], 1, curnode, e.dist,
                          [popped EXCEPT !.explored = expl,
                                         !.expanded = @ + 1])

\* One iteration of "while queue:", or the raise after the loop.
astar_step(G, xy, target, st) ==
    IF st.queue = {} THEN [st EXCEPT !.status = "NetworkXNoPath"]
    ELSE
        LET e == heappop(st.queue)
            popped == [st EXCEPT !.queue = @ \ {e}]
            curnode == e.node
        IN  IF curnode = target
            THEN [popped EXCEPT !.status = "found",
                                !.path = Append(walk_back(st.explored, e.parent),
                                                curnode)]
            ELSE IF curnode \in DOMAIN st.explored
                    /\ (st.explored[curnode] = None
                        \/ Less(st.enqueued[curnode].qcost, e.dist))
            THEN popped
            ELSE
                \* explored[curnode] = parent
                LET expl == (curnode :> e.parent) @@ st.explored
                IN  relax(xy, target, G.adj[curnode], 1, curnode, e.dist,
                          [popped EXCEPT !.explored = expl,
                                         !.expanded = @ + 1])

RECURSIVE astar_run(_, _, _, _)
astar_run(G, xy, target, st) ==
    IF st.status # "running" THEN st
    ELSE astar_run(G, xy, target, astar_step(G, xy, target, st))

\* The weight of the edge u - v of G.
weight(G, u, v) ==
    G.adj[u][CHOOSE k \in 1 .. Len(G.adj[u]) : G.adj[u][k][1] = v][2]

\* networkx.path_weight(G, path, weight="weight")
RECURSIVE path_weight(_, _)
path_weight(G, path) ==
    IF Len(path) <= 1 THEN Zero
    ELSE Add(path_weight(G, SubSeq(path, 1, Len(path) - 1)),
             weight(G, path[Len(path) - 1], path[Len(path)]))

(***************************************************************************)
(* Outcomes of RoutePlan.find_route: a returned (path, length_m), or the   *)
(* exception that leaves the call.                                         *)
(***************************************************************************)
Returned(path, length_m) ==
    [kind |-> "return", path |-> path, length_m |-> length_m]

Raised(exc) == [kind |-> "raise", exc |-> exc]

\* route_outcome swallowing the no-path error: an empty path of length 0.
route_outcome_partial(G, st) ==
    IF st.status = "found" THEN Returned(st.path, path_weight(G, st.path))
    ELSE Returned(<< >>, Zero)

\* What shortest_path_between does with the finished search.
route_outcome(G, st) ==
    IF st.status = "found" THEN Returned(st.path, path_weight(G, st.path))
    ELSE Raised(st.status)

\* The search of a call that never reached astar_path.
NoSearch == [status |-> "not started"]

\* shortest_path_between without the "s is None or t is None" check.
shortest_path_between_unchecked(G, xy, s_x, s_y, t_x, t_y) ==
    LET s == nearest_node_xy(xy, s_x, s_y)
        t == nearest_node_xy(xy, t_x, t_y)
        st == astar_run(G, xy, t, astar_init(G, s, t))
    IN  [outcome |-> route_outcome(G, st), search |-> st]

\* RoutePlan.shortest_path_between on the projected query (s_x, s_y),
\* (t_x, t_y): the outcome, and the finished search (NoSearch when
\* astar_path was never called).
shortest_path_between(G, xy, s_x, s_y, t_x, t_y) ==
    LET s == nearest_node_xy(xy, s_x, s_y)
        t == nearest_node_xy(xy, t_x, t_y)
    IN  IF s = None \/ t = None
        THEN [outcome |-> Raised("RuntimeError"), search |-> NoSearch]
        ELSE LET st == astar_run(G, xy, t, astar_init(G, s, t))
             IN  [outcome |-> route_outcome(G, st), search |-> st]

\* RoutePlan.find_route: list(path), length_m of shortest_path_between.
find_route(G, xy, s_x, s_y, t_x, t_y) ==
    shortest_path_between(G, xy, s_x, s_y, t_x, t_y)

(***************************************************************************)
(* Cost multipliers of sub-regions.  Fairway(..., fairway_multipliers=...) *)
(* is called by example_multipliers.py and test_visualization.py; the      *)
(* build that applies the multipliers is given by the specification: a     *)
(* sub-region is a part of the plane with a positive multiplier, a point   *)
(* in no sub-region has the default multiplier 1, and an edge weighs       *)
(* spacing * directionFactor * multiplier, the multiplier taken at the     *)
(* edge's midpoint.  One rectangular sub-region is modelled, with an       *)
(* integer multiplier.                                                     *)
(***************************************************************************)
\* Multipliers tried for the sub-region: 2 .. MaxMult.
MaxMult == 3

\* The rectangles with corners on integer points of the bounding box.
SubRegions ==
    { [minx |-> a[1], miny |-> a[2], maxx |-> b[1], maxy |-> b[2]] :
        <<a, b>> \in { pr \in BoxPoints \X BoxPoints :
                         pr[1][1] < pr[2][1] /\ pr[1][2] < pr[2][2] } }

\* fairway_multipliers: the sub-region and its multiplier k; k = 1 stands
\* for the empty table {}.
Multipliers(sub, k) == [sub |-> sub, k |-> k]

\* The empty table {}: every edge has the default multiplier.
NoMultipliers == Multipliers(CHOOSE sub \in SubRegions : TRUE, 1)

\* The sub-region contains or touches the midpoint of the points p and q.
covers_midpoint(sub, p, q) ==
    /\ 2 * sub.minx <= p[1] + q[1]
    /\ p[1] + q[1] <= 2 * sub.maxx
    /\ 2 * sub.miny <= p[2] + q[2]
    /\ p[2] + q[2] <= 2 * sub.maxy

\* multiplier_at the midpoint of the edge u - v: the sub-region's multiplier
\* inside it, the default 1 elsewhere.
effective_multiplier(xy, multipliers, u, v) ==
    IF covers_midpoint(multipliers.sub, Lookup(xy, u), Lookup(xy, v))
    THEN multipliers.k ELSE 1

\* scale_entries dividing the weight by the multiplier instead of multiplying.
RECURSIVE scale_entries_divided(_, _, _, _, _)
scale_entries_divided(row, xy, multipliers, u, k) ==
    IF k > Len(row) THEN << >>
    ELSE
        LET v == row[k][1]
            w == row[k][2]
            m == effective_multiplier(xy, multipliers, u, v)
        IN  << <<v, Num(w.a \div m, w.b \div m)>> >>
              \o scale_entries_divided(row, xy, multipliers, u, k + 1)

\* The adjacency entries of node u from the k-th on, every weight
\* spacing * directionFactor scaled by the edge's effective multiplier.
RECURSIVE scale_entries(_, _, _, _, _)
scale_entries(row, xy, multipliers, u, k) ==
    IF k > Len(row) THEN << >>
    ELSE
        LET v == row[k][1]
            w == row[k][2]
            m == effective_multiplier(xy, multipliers, u, v)
        IN  << <<v, Num(w.a * m, w.b * m)>> >>
              \o scale_entries(row, xy, multipliers, u, k + 1)

\* The adjacency of the nodes from the k-th on, scaled.
RECURSIVE apply_multipliers(_, _, _, _, _)
apply_multipliers(adj, nodes, xy, multipliers, k) ==
    IF k > Len(nodes) THEN << >>
    ELSE (nodes[k] :> scale_entries(adj[nodes[k]], xy, multipliers, nodes[k], 1))
           @@ apply_multipliers(adj, nodes, xy, multipliers, k + 1)

\* The build of Fairway(path, spacing_m, connectivity, fairway_multipliers).
get_grid_graph_multipliers(region, spacing, conn, multipliers) ==
    LET built == get_grid_graph(region, spacing, conn)
    IN  IF built.status # "ok" THEN built
        ELSE [built EXCEPT
                !.G.adj = apply_multipliers(@, built.G.nodes, built.xy_m,
                                            multipliers, 1)]

(***************************************************************************)
(* The program: a Fairway is constructed once from (fairway_m, spacing_m,  *)
(* connectivity); RoutePlan.find_route is then called any number of times, *)
(* by one caller or by several at once.  Query coordinates are taken after *)
(* the forward projection (lines 218-220), in the metric coordinates of    *)
(* the fairway.                                                            *)
(***************************************************************************)
VARIABLES
    fairway_m,      \* the projected geometry handed to _get_grid_graph
    spacing_m,      \* GridSpec.spacing_m
    connectivity,   \* GridSpec.connectivity
    fairway,        \* the Fairway object: constructor status, G and xy_m
    call,           \* per caller: the find_route call it is in, or was last in
    history         \* the finished calls in order: (query, outcome)

vars == <<fairway_m, spacing_m, connectivity, fairway, call, history>>

Spacings == (0 - MaxSpacing) .. MaxSpacing

\* 4 and 8 are supported; 5 stands for every other value.
Connectivities == {4, 5, 8}

Query(s, t) == [s_x |-> s[1], s_y |-> s[2], t_x |-> t[1], t_y |-> t[2]]

\* Every point of the bounding box, and two points outside it.
QueryPts ==
    BoxPoints \cup {<<0 - Margin, 0 - Margin>>, <<MaxX + Margin, MaxY + Margin>>}

Queries == { Query(s, t) : s \in QueryPts, t \in QueryPts }

Idle == [pc |-> "idle"]

\* A finished call.  overlapped: another caller was searching during one of
\* this call's search steps.
Done(q, r, overlapped) ==
    [pc |-> "done", query |-> q, outcome |-> r.outcome, search |-> r.search,
     overlapped |-> overlapped]

InitWith(callers, fairways, spacings) ==
    /\ fairway_m \in fairways
    /\ spacing_m \in spacings
    /\ connectivity \in Connectivities
    /\ fairway = [status |-> "new", G |-> EmptyGraph, xy_m |-> << >>]
    /\ call = [p \in callers |-> Idle]
    /\ history = << >>

\* Fairway.__init__ (lines 43-56), past loading and projecting the geometry.
Construct ==
    /\ fairway.status = "new"
    /\ fairway' = get_grid_graph(fairway_m, spacing_m, connectivity)
    /\ UNCHANGED <<fairway_m, spacing_m, connectivity, call, history>>

Finished(q, outcome) == [query |-> q, outcome |-> outcome]

\* find_route storing the start point it snapped in the coordinate map.
FindRouteInserting(p, q) ==
    /\ fairway.status = "ok"
    /\ call[p].pc \in {"idle", "done"}
    /\ LET r == find_route(fairway.G, fairway.xy_m, q.s_x, q.s_y, q.t_x, q.t_y)
       IN  /\ call' = [call EXCEPT ![p] = Done(q, r, FALSE)]
           /\ history' = Append(history, Finished(q, r.outcome))
    /\ fairway' = [fairway EXCEPT
                     !.xy_m = Append(@, <<<<-1, -1>>, <<q.s_x, q.s_y>>>>)]
    /\ UNCHANGED <<fairway_m, spacing_m, connectivity>>

\* find_route whose search keeps the enqueued dict of the caller's previous
\* search instead of starting from an empty one.
FindRouteStale(p, q) ==
    /\ fairway.status = "ok"
    /\ call[p].pc \in {"idle", "done"}
    /\ LET s == nearest_node_xy(fairway.xy_m, q.s_x, q.s_y)
           t == nearest_node_xy(fairway.xy_m, q.t_x, q.t_y)
           kept == IF call[p].pc = "done" /\ call[p].search # NoSearch
                   THEN call[p].search.enqueued ELSE << >>
           st == astar_run(fairway.G, fairway.xy_m, t,
                           [astar_init(fairway.G, s, t) EXCEPT !.enqueued = kept])
           r == IF s = None \/ t = None
                THEN [outcome |-> Raised("RuntimeError"), search |-> NoSearch]
                ELSE [outcome |-> route_outcome(fairway.G, st), search |-> st]
       IN  /\ call' = [call EXCEPT ![p] = Done(q, r, FALSE)]
           /\ history' = Append(history, Finished(q, r.outcome))
    /\ UNCHANGED <<fairway_m, spacing_m, connectivity, fairway>>

\* A whole call of RoutePlan.find_route by caller p.
FindRoute(p, q) ==
    /\ fairway.status = "ok"
    /\ call[p].pc \in {"idle", "done"}
    /\ LET r == find_route(fairway.G, fairway.xy_m, q.s_x, q.s_y, q.t_x, q.t_y)
       IN  /\ call' = [call EXCEPT ![p] = Done(q, r, FALSE)]
           /\ history' = Append(history, Finished(q, r.outcome))
    /\ UNCHANGED <<fairway_m, spacing_m, connectivity, fairway>>

(***************************************************************************)
(* The same call in steps, for callers that run at once: the snapping and  *)
(* the entry into astar_path (lines 218-233), each iteration of the search *)
(* loop, and the return (lines 234-235, 250-251).                          *)
(***************************************************************************)
Start(p, q) ==
    /\ fairway.status = "ok"
    /\ call[p].pc \in {"idle", "done"}
    /\ LET s == nearest_node_xy(fairway.xy_m, q.s_x, q.s_y)
           t == nearest_node_xy(fairway.xy_m, q.t_x, q.t_y)
       IN  IF s = None \/ t = None
           THEN /\ call' = [call EXCEPT ![p] =
                       Done(q, [outcome |-> Raised("RuntimeError"),
                                search |-> NoSearch], FALSE)]
                /\ history' = Append(history, Finished(q, Raised("RuntimeError")))
           ELSE /\ call' = [call EXCEPT ![p] =
                       [pc |-> "search", query |-> q, t |-> t,
                        st |-> astar_init(fairway.G, s, t),
                        overlapped |-> FALSE]]
                /\ UNCHANGED history
    /\ UNCHANGED <<fairway_m, spacing_m, connectivity, fairway>>

\* A search step on an enqueued dict shared with another caller's search.
StepShared(p) ==
    /\ call[p].pc = "search"
    /\ call[p].st.status = "running"
    /\ LET others == { o \in DOMAIN call \ {p} : call[o].pc = "search" }
           shared == IF others = {} THEN call[p].st.enqueued
                     ELSE call[p].st.enqueued
                            @@ call[CHOOSE o \in others : TRUE].st.enqueued
       IN  call' = [call EXCEPT
                      ![p].st = astar_step(fairway.G, fairway.xy_m, call[p].t,
                                           [@ EXCEPT !.enqueued = shared]),
                      ![p].overlapped = @ \/ others # {}]
    /\ UNCHANGED <<fairway_m, spacing_m, connectivity, fairway, history>>

Step(p) ==
    /\ call[p].pc = "search"
    /\ call[p].st.status = "running"
    /\ call' = [call EXCEPT
                  ![p].st = astar_step(fairway.G, fairway.xy_m, call[p].t, @),
                  ![p].overlapped =
                      @ \/ \E o \in DOMAIN call \ {p} : call[o].pc = "search"]
    /\ UNCHANGED <<fairway_m, spacing_m, connectivity, fairway, history>>

Return(p) ==
    /\ call[p].pc = "search"
    /\ call[p].st.status # "running"
    /\ LET r == [outcome |-> route_outcome(fairway.G, call[p].st),
                 search |-> call[p].st]
       IN  /\ call' = [call EXCEPT ![p] =
                         Done(call[p].query, r, call[p].overlapped)]
           /\ history' = Append(history, Finished(call[p].query, r.outcome))
    /\ UNCHANGED <<fairway_m, spacing_m, connectivity, fairway>>

(***************************************************************************)
(* Spec: a build and one query, over every fairway, spacing, connectivity  *)
(* and query.                                                              *)
(***************************************************************************)
Init == InitWith({1}, Fairways, Spacings)

Next ==
    \/ Construct
    \/ \E q \in Queries : Len(history) = 0 /\ FindRoute(1, q)

Spec == Init /\ [][Next]_vars

(***************************************************************************)
(* SpecSeq: a build and up to MaxCalls queries one after the other.        *)
(***************************************************************************)
MaxCalls == 3

\* A corner of the bounding box, a second corner, and a point outside it.
SeqQueryPts == {<<0, 0>>, <<0, MaxY>>, <<MaxX + Margin, MaxY + Margin>>}

\* The queries between two different points of SeqQueryPts.
SeqQueries ==
    { Query(pr[1], pr[2]) :
        pr \in { x \in SeqQueryPts \X SeqQueryPts : x[1] # x[2] } }

InitSeq == InitWith({1}, Fairways, 1 .. MaxSpacing)

NextSeq ==
    \/ Construct
    \/ \E q \in SeqQueries : Len(history) < MaxCalls /\ FindRoute(1, q)

SpecSeq == InitSeq /\ [][NextSeq]_vars

(***************************************************************************)
(* SpecConc: a build, then NumCallers callers each making one query, their *)
(* steps interleaved in every order.                                       *)
(***************************************************************************)
NumCallers == 2

Callers == 1 .. NumCallers

\* From a corner of the bounding box to a point outside it, and back.
ConcQueries ==
    { Query(<<0, 0>>, <<MaxX + Margin, MaxY + Margin>>),
      Query(<<MaxX + Margin, MaxY + Margin>>, <<0, 0>>) }

InitConc == InitWith(Callers, Fairways, 1 .. MaxSpacing)

NextConc ==
    \/ Construct
    \/ \E p \in Callers, q \in ConcQueries : call[p].pc = "idle" /\ Start(p, q)
    \/ \E p \in Callers : Step(p)
    \/ \E p \in Callers : Return(p)

SpecConc == InitConc /\ [][NextConc]_vars

(***************************************************************************)
(* SpecMult: example_multipliers.run_scenario run twice on one region,     *)
(* spacing, connectivity and query: first without multipliers, then with a *)
(* sub-region's multiplier raised to k > 1.  Each run constructs a Fairway *)
(* and plans the route.                                                    *)
(***************************************************************************)
MultQueries == SeqQueries

\* run_scenario(name, multipliers) for the query q.
RunScenario(q, multipliers) ==
    /\ Len(history) < 2
    /\ Len(history) = 0 => multipliers = NoMultipliers
    /\ Len(history) = 1 => multipliers.k > 1 /\ q = history[1].query
    /\ \E built \in { get_grid_graph_multipliers(fairway_m, spacing_m,
                                                  connectivity, multipliers) } :
          LET r == IF built.status = "ok"
                   THEN find_route(built.G, built.xy_m, q.s_x, q.s_y, q.t_x, q.t_y)
                   ELSE [outcome |-> Raised(built.status), search |-> NoSearch]
          IN  /\ fairway' = [status |-> built.status, G |-> built.G,
                             xy_m |-> built.xy_m, multipliers |-> multipliers]
              /\ call' = [call EXCEPT ![1] = Done(q, r, FALSE)]
              /\ history' = Append(history, Finished(q, r.outcome))
    /\ UNCHANGED <<fairway_m, spacing_m, connectivity>>

InitMult ==
    /\ fairway_m \in Fairways
    /\ spacing_m \in 1 .. MaxSpacing
    /\ connectivity \in {4, 8}
    /\ fairway = [status |-> "new", G |-> EmptyGraph, xy_m |-> << >>,
                  multipliers |-> NoMultipliers]
    /\ call = [p \in {1} |-> Idle]
    /\ history = << >>

NextMult ==
    \E q \in MultQueries, sub \in SubRegions, k \in 1 .. MaxMult :
        RunScenario(q, Multipliers(sub, k))

SpecMult == InitMult /\ [][NextMult]_vars

(***************************************************************************)
(* SpecTerm: a build and one query by one caller, the search taken step by *)
(* step.  The thread that called find_route keeps running it: a search     *)
(* step that can be taken is eventually taken, and so is the return.       *)
(***************************************************************************)
TermQueries == SeqQueries

InitTerm == InitWith({1}, Fairways, Spacings)

NextTerm ==
    \/ Construct
    \/ \E q \in TermQueries : call[1].pc = "idle" /\ Start(1, q)
    \/ Step(1)
    \/ Return(1)

SpecTerm ==
    InitTerm /\ [][NextTerm]_vars /\ WF_vars(Step(1)) /\ WF_vars(Return(1))

(***************************************************************************)
(* SpecLarge: a build and one query at every positive spacing up to        *)
(* MaxLargeSpacing, which exceeds both sides of the bounding box.          *)
(***************************************************************************)
MaxLargeSpacing == 5

LargeSpacings == 1 .. MaxLargeSpacing

LargeQueries == SeqQueries

InitLarge == InitWith({1}, Fairways, LargeSpacings)

NextLarge ==
    \/ Construct
    \/ \E q \in LargeQueries : Len(history) = 0 /\ FindRoute(1, q)

SpecLarge == InitLarge /\ [][NextLarge]_vars

(***************************************************************************)
(* Reference notions the properties are stated with: the nodes a query     *)
(* snaps to, least path weights by exhaustive relaxation, and the weight   *)
(* of a node sequence summed edge by edge.                                 *)
(***************************************************************************)
Nodes(G) == DOMAIN G.adj

SnapStart(q) == nearest_node_xy(fairway.xy_m, q.s_x, q.s_y)

SnapEnd(q) == nearest_node_xy(fairway.xy_m, q.t_x, q.t_y)

Adjacent(G, u, v) == \E k \in 1 .. Len(G.adj[u]) : G.adj[u][k][1] = v

\* The least element of a non-empty finite set of numbers a + b*sqrt(2).
Least(S) == CHOOSE c \in S : \A o \in S : LessEq(c, o)

\* d holds a pair (node, weight) for every node reached so far: the least
\* weight found of a path from the source.  One more round of relaxing every
\* edge, k times.
Reached(d) == { pr[1] : pr \in d }

Cost(d, v) == (CHOOSE pr \in d : pr[1] = v)[2]

RECURSIVE RelaxAll(_, _, _)
RelaxAll(G, d, k) ==
    IF k = 0 THEN d
    ELSE
        LET reach == Reached(d) \cup
                       { v \in Nodes(G) : \E u \in Reached(d) : Adjacent(G, u, v) }
            Via(v) == { Add(Cost(d, u), weight(G, u, v)) :
                          u \in { x \in Reached(d) : Adjacent(G, x, v) } }
            Old(v) == IF v \in Reached(d) THEN {Cost(d, v)} ELSE {}
        IN  RelaxAll(G, { <<v, Least(Old(v) \cup Via(v))>> : v \in reach }, k - 1)

\* Least path weight from src to every node joined to it by some path.
MinDist(G, src) == RelaxAll(G, {<<src, Zero>>}, Cardinality(Nodes(G)))

\* The sum of the weights of the edges path[k] - path[k+1], for a sequence
\* whose consecutive nodes are adjacent.
RECURSIVE TotalWeight(_, _, _)
TotalWeight(G, path, k) ==
    IF k >= Len(path) THEN Zero
    ELSE Add(weight(G, path[k], path[k + 1]), TotalWeight(G, path, k + 1))

IsWalk(G, path) ==
    /\ Len(path) >= 1
    /\ \A k \in 1 .. Len(path) : path[k] \in Nodes(G)
    /\ \A k \in 1 .. (Len(path) - 1) : Adjacent(G, path[k], path[k + 1])

DoneCalls == { p \in DOMAIN call : call[p].pc = "done" }

\* Both query points snapped (the lattice is not empty).
Snapped(q) == SnapStart(q) # None /\ SnapEnd(q) # None

Joined(q) ==
    Snapped(q) /\ SnapEnd(q) \in Reached(MinDist(fairway.G, SnapStart(q)))

\* The least weight of a path between the nodes a joined query snaps to.
LeastWeight(q) == Cost(MinDist(fairway.G, SnapStart(q)), SnapEnd(q))

(***************************************************************************)
(* C1.  Whenever both query points snap to nodes joined by some path,      *)
(* find_route returns a path, and the total weight of that path (and the   *)
(* returned length) is the least weight of any path of the graph between   *)
(* the snapped start node and the snapped end node.                        *)
(***************************************************************************)
C1_MinimumWeight ==
    \A p \in DoneCalls :
        Joined(call[p].query) =>
            LET least == LeastWeight(call[p].query)
            IN  /\ call[p].outcome.kind = "return"
                /\ IsWalk(fairway.G, call[p].outcome.path)
                /\ TotalWeight(fairway.G, call[p].outcome.path, 1) = least
                /\ call[p].outcome.length_m = least

\* A returned route of four or more nodes with straight and diagonal steps
\* around land, in a graph where a longer way round exists as well.
C1_Witness ==
    \E p \in DoneCalls :
        /\ call[p].outcome.kind = "return"
        /\ Len(call[p].outcome.path) >= 4
        /\ call[p].outcome.length_m.a > 0
        /\ call[p].outcome.length_m.b > 0
        /\ Len(fairway.G.nodes) >= 6
        /\ Len(fairway.G.nodes) < Cardinality(BoxPoints)

(***************************************************************************)
(* C2.  When the snapped start and end nodes lie in different connected    *)
(* components, find_route ends by raising the no-path error                *)
(* (NetworkXNoPath), which is not the snap failure (RuntimeError), and it  *)
(* returns neither a path nor a cost.                                      *)
(***************************************************************************)
C2_NoPathError ==
    \A p \in DoneCalls :
        (Snapped(call[p].query) /\ ~Joined(call[p].query)) =>
            /\ call[p].outcome = Raised("NetworkXNoPath")
            /\ call[p].outcome # Raised("RuntimeError")
            /\ DOMAIN call[p].outcome = {"kind", "exc"}

\* A query across a land barrier, after a search that expanded several nodes.
C2_Witness ==
    \E p \in DoneCalls :
        /\ Snapped(call[p].query)
        /\ ~Joined(call[p].query)
        /\ call[p].search.status = "NetworkXNoPath"
        /\ call[p].search.expanded >= 3

(***************************************************************************)
(* C3.  On a built lattice without nodes every find_route call ends with   *)
(* the snap failure (RuntimeError, "Could not snap start/end to the        *)
(* navigable grid"), raised before astar_path is entered.                  *)
(***************************************************************************)
C3_EmptyLatticeUnreachable ==
    \A p \in DoneCalls :
        Len(fairway.G.nodes) = 0 =>
            /\ call[p].outcome = Raised("RuntimeError")
            /\ call[p].search = NoSearch

\* A finished call on an empty lattice built at a positive spacing with a
\* supported connectivity, from a fairway that covers some points.
C3_Witness ==
    \E p \in DoneCalls :
        /\ Len(fairway.G.nodes) = 0
        /\ spacing_m > 0
        /\ connectivity = 8
        /\ fairway_m.covered # {}
        /\ call[p].query.s_x # call[p].query.t_x

(***************************************************************************)
(* C4.  A returned node sequence starts at the node the start point        *)
(* snapped to, ends at the node the end point snapped to, joins every two  *)
(* consecutive nodes by an edge of the graph, and the returned length is   *)
(* the sum of the weights of exactly those edges.                          *)
(***************************************************************************)
C4_PathShape ==
    \A p \in DoneCalls :
        call[p].outcome.kind = "return" =>
            LET path == call[p].outcome.path
            IN  /\ IsWalk(fairway.G, path)
                /\ path[1] = SnapStart(call[p].query)
                /\ path[Len(path)] = SnapEnd(call[p].query)
                /\ call[p].outcome.length_m = TotalWeight(fairway.G, path, 1)

\* A returned route of three or more nodes for query points that are not
\* themselves lattice points.
C4_Witness ==
    \E p \in DoneCalls :
        /\ call[p].outcome.kind = "return"
        /\ Len(call[p].outcome.path) >= 3
        /\ Lookup(fairway.xy_m, SnapStart(call[p].query))
             # <<call[p].query.s_x, call[p].query.s_y>>

(***************************************************************************)
(* C5.  A build with a zero or negative spacing fails with an error and    *)
(* produces no graph, whatever the fairway.  Any exception is counted as   *)
(* the error, and the connectivity is a supported one, so that nothing but *)
(* the spacing is wrong with the configuration.                            *)
(***************************************************************************)
C5_NonPositiveSpacingFails ==
    (fairway.status # "new" /\ spacing_m <= 0 /\ connectivity \in {4, 8}) =>
        /\ fairway.status # "ok"
        /\ fairway.G = EmptyGraph
        /\ fairway.xy_m = << >>

(***************************************************************************)
(* C6.  A connectivity other than 4 or 8 makes the build fail, whatever    *)
(* the fairway, also when no candidate point is traversable.  The spacing  *)
(* is positive, so that nothing but the connectivity is wrong with the     *)
(* configuration.                                                          *)
(***************************************************************************)
C6_UnsupportedConnectivityFails ==
    (fairway.status # "new" /\ connectivity \notin {4, 8} /\ spacing_m > 0) =>
        fairway.status # "ok"

(***************************************************************************)
(* C7.  When no candidate grid point is covered by the fairway, the build  *)
(* completes without an error, with a graph of zero nodes and zero edges   *)
(* and an empty coordinate map; its status differs from every failed       *)
(* build's.  (Candidates exist for a spacing other than zero; at zero the  *)
(* index range itself cannot be computed.)                                 *)
(***************************************************************************)
NoCandidateCovered ==
    \A k \in 1 .. Len(candidates(fairway_m, spacing_m)) :
        ~covers(fairway_m, candidates(fairway_m, spacing_m)[k][2])

C7_EmptyLatticeBuild ==
    (fairway.status # "new" /\ spacing_m # 0 /\ NoCandidateCovered) =>
        /\ fairway.status = "ok"
        /\ fairway.status \notin {"ZeroDivisionError", "ValueError"}
        /\ fairway.G.nodes = << >>
        /\ fairway.xy_m = << >>
        /\ get_stats(fairway.G, spacing_m, connectivity).nodes = 0
        /\ get_stats(fairway.G, spacing_m, connectivity).edges = 0

\* A finished build at a positive spacing with a supported connectivity, of a
\* fairway that covers points of its bounding box but none of the candidates.
C7_Witness ==
    /\ fairway.status = "ok"
    /\ spacing_m > 0
    /\ connectivity \in {4, 8}
    /\ Cardinality(fairway_m.covered) >= 2
    /\ Len(candidates(fairway_m, spacing_m)) >= 4
    /\ NoCandidateCovered

(***************************************************************************)
(* C8.  Once the graph is built, no find_route call, returning or raising, *)
(* changes it: nodes, edges, weights and the coordinate map stay as built. *)
(***************************************************************************)
C8_GraphUnchanged == [][fairway.status = "ok" => fairway' = fairway]_vars

\* Three calls in a row on a graph with edges, one returning a route and a
\* later one raising.
C8_Witness ==
    /\ Len(history) = MaxCalls
    /\ history[1].outcome.kind = "return"
    /\ Len(history[1].outcome.path) >= 2
    /\ history[2].outcome.kind = "raise"
    /\ fairway = get_grid_graph(fairway_m, spacing_m, connectivity)

C10_ConcurrentSafe ==
    /\ \A p \in DoneCalls :
          call[p].outcome =
              find_route(fairway.G, fairway.xy_m, call[p].query.s_x,
                         call[p].query.s_y, call[p].query.t_x,
                         call[p].query.t_y).outcome
    /\ fairway.status # "new" =>
          fairway = get_grid_graph(fairway_m, spacing_m, connectivity)

\* Every caller has finished a call whose search steps overlapped another
\* caller's search, one of them with a route of three or more nodes.
C10_Witness ==
    /\ \A p \in DOMAIN call : call[p].pc = "done" /\ call[p].overlapped
    /\ Cardinality(DOMAIN call) >= 2
    /\ \E p \in DOMAIN call :
          /\ call[p].outcome.kind = "return"
          /\ Len(call[p].outcome.path) >= 3

(***************************************************************************)
(* Reference notions for the built graph: the index steps between two      *)
(* nodes and the edges as (node, neighbour, weight) triples.               *)
(***************************************************************************)
Abs(n) == IF n < 0 THEN 0 - n ELSE n

\* u and v differ by one step along exactly one axis.
OrthogonalStep(u, v) == Abs(u[1] - v[1]) + Abs(u[2] - v[2]) = 1

\* u and v differ by one step along both axes.
DiagonalStep(u, v) == Abs(u[1] - v[1]) = 1 /\ Abs(u[2] - v[2]) = 1

\* Every adjacency entry of G: <<u, v, w>> for v in G[u] with weight w.
Entries(G) ==
    UNION { { <<u, G.adj[u][k][1], G.adj[u][k][2]>> : k \in 1 .. Len(G.adj[u]) } :
              u \in DOMAIN G.adj }

(***************************************************************************)
(* C11.  For a spacing s > 0 and connectivity 4 or 8, every edge of the    *)
(* built graph joins orthogonal grid neighbours with weight s or diagonal  *)
(* grid neighbours with weight s*sqrt(2), times the effective multiplier,  *)
(* which is 1 for every edge (the build has no sub-regions); every weight  *)
(* is strictly positive.                                                   *)
(***************************************************************************)
C11_EdgeWeights ==
    (fairway.status = "ok" /\ spacing_m > 0 /\ connectivity \in {4, 8}) =>
        \A e \in Entries(fairway.G) :
            /\ OrthogonalStep(e[1], e[2]) \/ DiagonalStep(e[1], e[2])
            /\ OrthogonalStep(e[1], e[2]) => e[3] = Num(spacing_m, 0)
            /\ DiagonalStep(e[1], e[2]) => e[3] = Num(0, spacing_m)
            /\ Sgn2(e[3].a, e[3].b) > 0

\* A graph built at a spacing of two metres with straight and diagonal edges.
C11_Witness ==
    /\ fairway.status = "ok"
    /\ spacing_m = 2
    /\ connectivity = 8
    /\ \E e \in Entries(fairway.G) : OrthogonalStep(e[1], e[2])
    /\ \E e \in Entries(fairway.G) : DiagonalStep(e[1], e[2])

(***************************************************************************)
(* C12.  Every built graph is undirected and simple: no node is its own    *)
(* neighbour, no node lists a neighbour twice, and v is a neighbour of u   *)
(* exactly when u is a neighbour of v, with the same weight.               *)
(***************************************************************************)
C12_UndirectedSimple ==
    fairway.status = "ok" =>
        LET G == fairway.G IN
        /\ DOMAIN G.adj = { G.nodes[k] : k \in 1 .. Len(G.nodes) }
        /\ \A u \in DOMAIN G.adj :
              /\ \A k \in 1 .. Len(G.adj[u]) : G.adj[u][k][1] # u
              /\ \A k, l \in 1 .. Len(G.adj[u]) :
                    G.adj[u][k][1] = G.adj[u][l][1] => k = l
        /\ \A e \in Entries(G) :
              /\ e[2] \in DOMAIN G.adj
              /\ <<e[2], e[1], e[3]>> \in Entries(G)

\* A graph of six or more nodes with some node of degree five or more.
C12_Witness ==
    /\ fairway.status = "ok"
    /\ Len(fairway.G.nodes) >= 6
    /\ \E u \in DOMAIN fairway.G.adj : Len(fairway.G.adj[u]) >= 5

(***************************************************************************)
(* C13.  A route is planned without multipliers and then, for the same     *)
(* region, spacing, connectivity and query, with the multiplier of a       *)
(* sub-region raised from 1 to k > 1.  When the first route crossed the    *)
(* sub-region, the second run returns a route as well and its cost is not  *)
(* below the first run's cost.                                             *)
(***************************************************************************)
\* Some step of the path has its midpoint in the sub-region.
Crosses(xy, path, sub) ==
    \E i \in 1 .. (Len(path) - 1) :
        covers_midpoint(sub, Lookup(xy, path[i]), Lookup(xy, path[i + 1]))

Dist2(xy, n, x, y) ==
    (Lookup(xy, n)[1] - x) * (Lookup(xy, n)[1] - x)
      + (Lookup(xy, n)[2] - y) * (Lookup(xy, n)[2] - y)

\* n is a node of xy with no node nearer to (x, y).
IsNearest(xy, n, x, y) ==
    /\ n \in Keys(xy)
    /\ \A o \in Keys(xy) : Dist2(xy, n, x, y) <= Dist2(xy, o, x, y)

C14_NearestNode ==
    \A p \in DoneCalls :
        LET q == call[p].query
            xy == fairway.xy_m
        IN  /\ Len(xy) > 0 =>
                /\ IsNearest(xy, SnapStart(q), q.s_x, q.s_y)
                /\ IsNearest(xy, SnapEnd(q), q.t_x, q.t_y)
            /\ Len(xy) = 0 <=> SnapStart(q) = None
            /\ Len(xy) = 0 <=> SnapEnd(q) = None

\* A finished call whose start point is no lattice point, on a lattice of
\* four or more nodes where the nearest node is not the first of the scan.
C14_Witness ==
    \E p \in DoneCalls :
        /\ Len(fairway.xy_m) >= 4
        /\ SnapStart(call[p].query) # fairway.xy_m[1][1]
        /\ Dist2(fairway.xy_m, SnapStart(call[p].query),
                 call[p].query.s_x, call[p].query.s_y) > 0

(***************************************************************************)
(* C15.  The node set of a built graph is exactly the set of index pairs   *)
(* (i, j), i >= 0 and j >= 0, whose point (minx + i*spacing,               *)
(* miny + j*spacing) lies in the bounding box and is covered by the        *)
(* fairway: no covered lattice point of the box is skipped and no node's   *)
(* point lies outside the fairway.                                         *)
(***************************************************************************)
\* The point of the index pair (i, j).
LatticePoint(i, j) ==
    <<fairway_m.minx + i * spacing_m, fairway_m.miny + j * spacing_m>>

InBounds(pt) ==
    /\ fairway_m.minx <= pt[1] /\ pt[1] <= fairway_m.maxx
    /\ fairway_m.miny <= pt[2] /\ pt[2] <= fairway_m.maxy

\* Index pairs up to one step past the largest index whose point can lie in
\* the box (|spacing| >= 1).
CoveredLatticeIndices ==
    { ij \in (0 .. (MaxX + 1)) \X (0 .. (MaxY + 1)) :
        /\ InBounds(LatticePoint(ij[1], ij[2]))
        /\ covers(fairway_m, LatticePoint(ij[1], ij[2])) }

C15_NodeSetExact ==
    fairway.status = "ok" =>
        /\ Keys(fairway.xy_m) = CoveredLatticeIndices
        /\ DOMAIN fairway.G.adj = CoveredLatticeIndices
        /\ \A k \in 1 .. Len(fairway.xy_m) :
              /\ fairway.xy_m[k][2]
                   = LatticePoint(fairway.xy_m[k][1][1], fairway.xy_m[k][1][2])
              /\ covers(fairway_m, fairway.xy_m[k][2])

(***************************************************************************)
(* C16.  With connectivity 4 or 8, two nodes of a built graph are joined   *)
(* by an edge exactly when they are grid-adjacent under the connectivity:  *)
(* one step along one axis, or with connectivity 8 also one step along     *)
(* both; edges join nodes only, and with connectivity 4 no edge is         *)
(* diagonal.                                                               *)
(***************************************************************************)
GridAdjacent(conn, u, v) ==
    \/ OrthogonalStep(u, v)
    \/ conn = 8 /\ DiagonalStep(u, v)

C16_EdgesIffGridAdjacent ==
    (fairway.status = "ok" /\ connectivity \in {4, 8}) =>
        LET G == fairway.G IN
        /\ \A u, v \in Nodes(G) :
              Adjacent(G, u, v) <=> GridAdjacent(connectivity, u, v)
        /\ \A e \in Entries(G) : e[1] \in Nodes(G) /\ e[2] \in Nodes(G)
        /\ Nodes(G) = Keys(fairway.xy_m)
        /\ connectivity = 4 =>
              \A e \in Entries(G) : ~DiagonalStep(e[1], e[2])

\* A graph built with connectivity 4 in which two nodes lie diagonally and
\* two lie side by side, and the fairway leaves some point of the box out.
C16_Witness ==
    /\ fairway.status = "ok"
    /\ connectivity = 4
    /\ Len(fairway.G.nodes) < Cardinality(BoxPoints)
    /\ \E u, v \in Nodes(fairway.G) : DiagonalStep(u, v)
    /\ \E u, v \in Nodes(fairway.G) : OrthogonalStep(u, v)

(***************************************************************************)
(* C17.  The heuristic of a search, the straight-line distance from a node *)
(* to the goal node t, is admissible and consistent on the built graph:    *)
(* for every node u joined to t it is at most the least weight of a path   *)
(* from u to t, and for every edge u - v of weight w,                      *)
(* h(u, t) <= w + h(v, t).                                                 *)
(***************************************************************************)
\* sqrt(n) <= a + b*sqrt(2) for the cost c = a + b*sqrt(2).
RootAtMost(n, c) == Sgn3(c.a, c.b, 0, n) >= 0

C17_HeuristicAdmissibleConsistent ==
    \A p \in DoneCalls :
        Snapped(call[p].query) =>
            LET G == fairway.G
                xy == fairway.xy_m
                t == SnapEnd(call[p].query)
                least == MinDist(G, t)
            IN  /\ \A u \in Reached(least) :
                      RootAtMost(h(xy, u, t), Cost(least, u))
                /\ \A e \in Entries(G) :
                      Sgn3(e[3].a, e[3].b, h(xy, e[2], t), h(xy, e[1], t)) >= 0

\* A search on a graph with diagonal edges where the fairway leaves points
\* out: for some node the straight line to the goal is strictly shorter than
\* every path, for another, two or more steps away, it is exactly as long.
C17_Witness ==
    \E p \in DoneCalls :
        /\ Snapped(call[p].query)
        /\ connectivity = 8
        /\ Len(fairway.G.nodes) < Cardinality(BoxPoints)
        /\ LET t == SnapEnd(call[p].query)
               least == MinDist(fairway.G, t)
           IN  /\ \E u \in Reached(least) :
                     Sgn3(Cost(least, u).a, Cost(least, u).b, 0,
                          h(fairway.xy_m, u, t)) > 0
               /\ \E u \in Reached(least) :
                     /\ h(fairway.xy_m, u, t) >= 4
                     /\ Sgn3(Cost(least, u).a, Cost(least, u).b, 0,
                             h(fairway.xy_m, u, t)) = 0

(***************************************************************************)
(* C18.  Every find_route call ends: a call that entered the search        *)
(* eventually finishes, a finished call has returned a (path, length) or   *)
(* raised the no-path error or the snap failure, and its search has        *)
(* expanded no more nodes than the component of the start node holds.      *)
(***************************************************************************)
\* The number of nodes joined to the node the start point snapped to.
ComponentSize(q) == Cardinality(Reached(MinDist(fairway.G, SnapStart(q))))

\* Caller p has finished in one of the three ways, within the bound.
C18_Ended(p) ==
    /\ call[p].pc = "done"
    /\ \/ call[p].outcome.kind = "return"
       \/ call[p].outcome = Raised("NetworkXNoPath")
       \/ call[p].outcome = Raised("RuntimeError")
    /\ call[p].search # NoSearch =>
          call[p].search.expanded <= ComponentSize(call[p].query)

C18_Terminates ==
    \A p \in {1} : (call[p].pc \in {"search", "done"}) ~> C18_Ended(p)

\* A finished call that raised the no-path error after expanding every node
\* of a component of three or more nodes.
C18_Witness ==
    \E p \in DoneCalls :
        /\ call[p].outcome = Raised("NetworkXNoPath")
        /\ call[p].search.expanded >= 3
        /\ call[p].search.expanded = ComponentSize(call[p].query)

(***************************************************************************)
(* C19.  A find_route call ends with the snap failure (RuntimeError)       *)
(* exactly when the lattice has no node.  On a non-empty lattice the       *)
(* search is entered whatever the query points, also for points outside    *)
(* the fairway, and a returned route runs between the nodes nearest to the *)
(* two points.                                                             *)
(***************************************************************************)
C19_SnapNeverFails ==
    \A p \in DoneCalls :
        /\ call[p].outcome = Raised("RuntimeError") <=> Len(fairway.G.nodes) = 0
        /\ Len(fairway.G.nodes) > 0 =>
              /\ call[p].search # NoSearch
              /\ call[p].outcome.kind = "return" =>
                    /\ call[p].outcome.path[1] = SnapStart(call[p].query)
                    /\ call[p].outcome.path[Len(call[p].outcome.path)]
                         = SnapEnd(call[p].query)

\* Both query points lie outside the bounding box, on opposite sides, and
\* the call returns a route of two or more nodes.
C19_Witness ==
    \E p \in DoneCalls :
        /\ call[p].query.s_x < 0
        /\ call[p].query.t_x > MaxX
        /\ call[p].outcome.kind = "return"
        /\ Len(call[p].outcome.path) >= 2

(***************************************************************************)
(* C20.  With connectivity 8, two traversable nodes one diagonal step      *)
(* apart are joined by an edge of weight spacing*sqrt(2) also when neither *)
(* of the two orthogonal neighbours they share is traversable, and a query *)
(* that snaps to two such nodes returns the route that steps diagonally    *)
(* from one to the other.                                                  *)
(***************************************************************************)
\* u and v lie diagonally and neither shared orthogonal neighbour is a node.
CutsCorner(G, u, v) ==
    /\ DiagonalStep(u, v)
    /\ <<u[1], v[2]>> \notin Nodes(G)
    /\ <<v[1], u[2]>> \notin Nodes(G)

C20_DiagonalCutsCorner ==
    (fairway.status = "ok" /\ connectivity = 8) =>
        /\ \A u, v \in Nodes(fairway.G) :
              CutsCorner(fairway.G, u, v) =>
                  /\ Adjacent(fairway.G, u, v)
                  /\ weight(fairway.G, u, v) = Num(0, spacing_m)
        /\ \A p \in DoneCalls :
              LET s == SnapStart(call[p].query)
                  t == SnapEnd(call[p].query)
              IN  (Snapped(call[p].query) /\ CutsCorner(fairway.G, s, t)) =>
                      call[p].outcome = Returned(<<s, t>>, Num(0, spacing_m))

\* A returned route of three or more nodes one of whose steps is diagonal
\* between nodes whose shared orthogonal neighbours are both outside the
\* fairway.
C20_Witness ==
    \E p \in DoneCalls :
        /\ connectivity = 8
        /\ call[p].outcome.kind = "return"
        /\ Len(call[p].outcome.path) >= 3
        /\ \E i \in 1 .. (Len(call[p].outcome.path) - 1) :
              CutsCorner(fairway.G, call[p].outcome.path[i],
                         call[p].outcome.path[i + 1])

(***************************************************************************)
(* C21.  When the start point and the end point of a query snap to the     *)
(* same node, find_route returns the one-element sequence holding that     *)
(* node with length 0: the call raises neither the snap failure nor the    *)
(* no-path error, and the search expands no node.                          *)
(***************************************************************************)
C21_SameNodeRoute ==
    \A p \in DoneCalls :
        LET s == SnapStart(call[p].query)
            t == SnapEnd(call[p].query)
        IN  (Snapped(call[p].query) /\ s = t) =>
                /\ call[p].outcome = Returned(<<s>>, Zero)
                /\ call[p].search.status = "found"
                /\ call[p].search.expanded = 0

\* Two different query points snap to one node of a lattice of three or
\* more nodes in which that node has a neighbour, and the call returns.
C21_Witness ==
    \E p \in DoneCalls :
        /\ <<call[p].query.s_x, call[p].query.s_y>>
             # <<call[p].query.t_x, call[p].query.t_y>>
        /\ Snapped(call[p].query)
        /\ SnapStart(call[p].query) = SnapEnd(call[p].query)
        /\ Len(fairway.G.nodes) >= 3
        /\ Len(fairway.G.adj[SnapStart(call[p].query)]) >= 1
        /\ call[p].outcome.kind = "return"

(***************************************************************************)
(* C22.  The lattice origin is the lower-left corner (minx, miny) of the   *)
(* bounding box.  When the region covers that corner, the lattice built at *)
(* any positive spacing holds node (0, 0) at (minx, miny), also at a       *)
(* spacing larger than the bounding box: the build does not end with an    *)
(* empty lattice and no find_route call ends with the snap failure.        *)
(***************************************************************************)
\* The lower-left corner of the region's bounding box.
Corner == <<fairway_m.minx, fairway_m.miny>>

CoversCorner == covers(fairway_m, Corner)

\* The spacing is larger than both sides of the bounding box.
BeyondBox ==
    /\ spacing_m > fairway_m.maxx - fairway_m.minx
    /\ spacing_m > fairway_m.maxy - fairway_m.miny

C22_OriginNodeAlways ==
    (fairway.status # "new" /\ spacing_m > 0 /\ CoversCorner) =>
        /\ Len(grid_xy(fairway_m, spacing_m)) >= 1
        /\ Head(grid_xy(fairway_m, spacing_m)) = << <<0, 0>>, Corner >>
        /\ fairway.status = "ok" <=> ~neighbors_raises(connectivity)
        /\ fairway.status = "ok" =>
              /\ <<0, 0>> \in Nodes(fairway.G)
              /\ Lookup(fairway.xy_m, <<0, 0>>) = Corner
              /\ BeyondBox => fairway.G.nodes = << <<0, 0>> >>
        /\ \A p \in DoneCalls : call[p].outcome # Raised("RuntimeError")

\* The whole axis-aligned rectangle is the region, the spacing is larger
\* than both of its sides, and a call has returned on the one-node lattice.
C22_Witness ==
    /\ fairway_m.covered = BoxPoints
    /\ BeyondBox
    /\ spacing_m = MaxLargeSpacing
    /\ fairway.status = "ok"
    /\ Len(fairway.G.nodes) = 1
    /\ \E p \in DoneCalls : call[p].outcome.kind = "return"

=============================================================================
